---- MODULE Spec2Model ----
(***************************************************************************)
(* Model of the timezone comparison page: the selection list and the       *)
(* reference hour held by Home (src/app/routes/home.tsx), the timeline     *)
(* drag controller of TimezoneComparison, the Sidebar cards and the pure   *)
(* conversion and formatting functions of src/app/lib/timezone-data.ts.    *)
(*                                                                         *)
(* Numbers.  A JavaScript number that stands for an hour or an offset is   *)
(* kept exactly, as an integer count of 1/UnitsPerHour hours.  Every hour  *)
(* the model produces (24 * x / width for the modelled widths, registry    *)
(* offsets, sums of them) is a whole number of units, so no rounding is    *)
(* introduced by the model.  The one non-finite result the code can        *)
(* produce, NaN (0 / 0), is the distinguished value NaN.                   *)
(***************************************************************************)
EXTENDS Integers, Sequences, FiniteSets, TLC

VARIABLES selectedTimezones, selectedHour, isDragging, listenersAttached,
          moveListeners, rect, isOpen,
          dragItem, draggedId, listAtDragStart, onMoveCalls

\* The card drag of the sidebar: dragItem is the item of the drag-and-drop
\* monitor (empty when no card is dragged, else the one item { index });
\* draggedId is the timezone of the card that is the drag source,
\* listAtDragStart the selection when the drag began, and onMoveCalls the
\* onMove calls the last hover issued.
dnd == <<dragItem, draggedId, listAtDragStart, onMoveCalls>>

vars == <<selectedTimezones, selectedHour, isDragging, listenersAttached,
          moveListeners, rect, isOpen, dnd>>

(***************************************************************************)
(* Bounds and input sets                                                   *)
(***************************************************************************)
\* Longest selection list the modelled user builds.
MaxSelected == 3

\* How far outside 0 .. length the index arguments of a direct
\* reorder call are drawn.
IndexSlack == 1

\* Units per hour: divisible by 2 (half-hour offsets), by 10 (width 240)
\* and by 130 (width 1040), so that 24 * x / width is a whole number of units.
UnitsPerHour == 2 * 5 * 13

\* The literal 24 of the hour arithmetic.
HoursPerDay == 24

Day == HoursPerDay * UnitsPerHour

\* The value of 0 / 0 and of every arithmetic expression it enters.
NaN == 0 - (Day * Day)

\* The value of a destructured element that does not exist.
Undefined == "undefined"

Hours(n) == n * UnitsPerHour

HalfHours(n) == (n * UnitsPerHour) \div 2

(***************************************************************************)
(* Timezone registry                                                       *)
(***************************************************************************)
TIMEZONE_LIST ==
  << [id |-> "utc",       offset |-> Hours(0)],
     [id |-> "pst",       offset |-> Hours(0 - 8)],
     [id |-> "mst",       offset |-> Hours(0 - 7)],
     [id |-> "cst",       offset |-> Hours(0 - 6)],
     [id |-> "est",       offset |-> Hours(0 - 5)],
     [id |-> "gmt",       offset |-> Hours(0)],
     [id |-> "cet",       offset |-> Hours(1)],
     [id |-> "eet",       offset |-> Hours(2)],
     [id |-> "msk",       offset |-> Hours(3)],
     [id |-> "ist",       offset |-> HalfHours(11)],
     [id |-> "bdt",       offset |-> Hours(6)],
     [id |-> "ict",       offset |-> Hours(7)],
     [id |-> "vn",        offset |-> Hours(7)],
     [id |-> "cst_china", offset |-> Hours(8)],
     [id |-> "hkt",       offset |-> Hours(8)],
     [id |-> "sgt",       offset |-> Hours(8)],
     [id |-> "jst",       offset |-> Hours(9)],
     [id |-> "kst",       offset |-> Hours(9)],
     [id |-> "aest",      offset |-> Hours(11)],
     [id |-> "nzst",      offset |-> Hours(13)] >>

RegistryIds == { TIMEZONE_LIST[i].id : i \in 1..Len(TIMEZONE_LIST) }

\* TIMEZONE_LIST.find((tz) => tz.id === id)
getTimezoneById(id) ==
  IF \E i \in 1..Len(TIMEZONE_LIST) : TIMEZONE_LIST[i].id = id
  THEN TIMEZONE_LIST[CHOOSE i \in 1..Len(TIMEZONE_LIST) :
                        /\ TIMEZONE_LIST[i].id = id
                        /\ \A j \in 1..(i - 1) : TIMEZONE_LIST[j].id # id]
  ELSE Undefined

\* tz.offset of the registry object the selection refers to.
OffsetOf(id) == getTimezoneById(id).offset

\* The cities the modelled user picks in the dropdown: the two defaults,
\* the half-hour zone and the two extreme offsets.
Picks == {"vn", "jst", "ist", "pst", "nzst"}

DEFAULT_TIMEZONES == <<"vn", "jst">>

\* Bounds of the first timeline row as getBoundingClientRect reports them.
Rects == { [left |-> 100, width |-> 240],
           [left |-> 100, width |-> 1040],
           [left |-> 100, width |-> 0] }

\* Horizontal client coordinates of the modelled pointer and touch events.
ClientXs == {80, 100, 143, 220, 340, 620, 1140, 1200}

(***************************************************************************)
(* Pure functions                                                          *)
(***************************************************************************)
\* JavaScript a % b for b > 0: the result takes the sign of a.
JsRem(a, b) == IF a >= 0 THEN a % b ELSE 0 - ((0 - a) % b)

\* src/app/lib/timezone-data.ts: (utcHour + offset + 24) % 24
libGetHourInTimezone(utcHour, offset) ==
  IF utcHour = NaN THEN NaN ELSE JsRem(utcHour + offset + Day, Day)

\* The UTC clock readings (hours, minutes) the model starts from.
NowSamples == { <<0, 0>>, <<9, 30>>, <<16, 0>>, <<16, 54>>, <<23, 54>> }

\* src/app/lib/timezone-data.ts getCurrentUTCHour:
\* now.getUTCHours() + now.getUTCMinutes() / 60
getCurrentUTCHour ==
  { Hours(now[1]) + (now[2] * UnitsPerHour) \div 60 : now \in NowSamples }

\* The current hour in a timezone: the UTC hour moved by the offset,
\* within [0, 24).
getCurrentHourInTimezone(offset) ==
  { libGetHourInTimezone(utcHour, offset) : utcHour \in getCurrentUTCHour }

\* const getInitialHour: the current hour in the first default timezone,
\* or 12 when there is no default.
getInitialHour ==
  IF Len(DEFAULT_TIMEZONES) > 0
  THEN getCurrentHourInTimezone(OffsetOf(DEFAULT_TIMEZONES[1])) \cup {Hours(12)}
  ELSE {Hours(12)}

\* Math.floor of an hour, in whole hours.
MathFloor(hour) == hour \div UnitsPerHour

\* Math.round((hour - h) * 60): the nearest whole minute, halves upwards.
RoundMinutes(frac) == (2 * 60 * frac + UnitsPerHour) \div (2 * UnitsPerHour)

Digit(d) == <<"0", "1", "2", "3", "4", "5", "6", "7", "8", "9">>[d + 1]

RECURSIVE NatToString(_)
NatToString(n) ==
  IF n < 10 THEN Digit(n) ELSE NatToString(n \div 10) \o Digit(n % 10)

\* Number.prototype.toString of an integer (or NaN).
NumToString(n) ==
  IF n = NaN THEN "NaN"
  ELSE IF n < 0 THEN "-" \o NatToString(0 - n) ELSE NatToString(n)

\* String.prototype.padStart(2, "0")
PadStart2(str) == IF Len(str) < 2 THEN "0" \o str ELSE str

\* formatTime without padStart(2, "0").
formatTime_NoPad(hour) ==
  LET h == IF hour = NaN THEN NaN ELSE MathFloor(hour)
      m == IF hour = NaN THEN NaN ELSE RoundMinutes(hour - Hours(h))
      suffix == IF h # NaN /\ h >= 12 THEN "PM" ELSE "AM"
      displayHour == IF h = 0 THEN 12
                     ELSE IF h # NaN /\ h > 12 THEN h - 12 ELSE h
  IN  NumToString(displayHour) \o ":" \o NumToString(m) \o " " \o suffix

\* src/app/lib/timezone-data.ts formatTime
formatTime(hour) ==
  LET h == IF hour = NaN THEN NaN ELSE MathFloor(hour)
      m == IF hour = NaN THEN NaN ELSE RoundMinutes(hour - Hours(h))
      suffix == IF h # NaN /\ h >= 12 THEN "PM" ELSE "AM"
      displayHour == IF h = 0 THEN 12
                     ELSE IF h # NaN /\ h > 12 THEN h - 12 ELSE h
  IN  NumToString(displayHour) \o ":" \o PadStart2(NumToString(m))
        \o " " \o suffix

\* src/app/lib/timezone-data.ts formatHour
formatHour(hour) ==
  LET h == IF hour = NaN THEN NaN ELSE MathFloor(hour)
      suffix == IF h # NaN /\ h >= 12 THEN "PM" ELSE "AM"
      displayHour == IF h = 0 THEN 12
                     ELSE IF h # NaN /\ h > 12 THEN h - 12 ELSE h
  IN  NumToString(displayHour) \o suffix

TIME_GROUPS ==
  << [name |-> "Late Night", startHour |-> Hours(0),  endHour |-> Hours(6)],
     [name |-> "Morning",    startHour |-> Hours(6),  endHour |-> Hours(12)],
     [name |-> "Afternoon",  startHour |-> Hours(12), endHour |-> Hours(18)],
     [name |-> "Night",      startHour |-> Hours(18), endHour |-> Hours(24)] >>

\* getTimeGroupForHour with the ranges closed at the end instead of the start.
getTimeGroupForHour_ClosedEnd(hour) ==
  LET normalizedHour ==
        IF hour = NaN THEN NaN ELSE JsRem(JsRem(hour, Day) + Day, Day)
      Matches(g) == /\ normalizedHour # NaN
                    /\ normalizedHour > TIME_GROUPS[g].startHour
                    /\ normalizedHour <= TIME_GROUPS[g].endHour
  IN  IF \E g \in 1..Len(TIME_GROUPS) : Matches(g)
      THEN TIME_GROUPS[CHOOSE g \in 1..Len(TIME_GROUPS) :
                         Matches(g) /\ \A k \in 1..(g - 1) : ~Matches(k)]
      ELSE TIME_GROUPS[1]

\* TimezoneComparison.tsx getTimeGroupForHour: the first group whose
\* half-open range holds the normalized hour, else the first group.
getTimeGroupForHour(hour) ==
  LET normalizedHour ==
        IF hour = NaN THEN NaN ELSE JsRem(JsRem(hour, Day) + Day, Day)
      Matches(g) == /\ normalizedHour # NaN
                    /\ normalizedHour >= TIME_GROUPS[g].startHour
                    /\ normalizedHour < TIME_GROUPS[g].endHour
  IN  IF \E g \in 1..Len(TIME_GROUPS) : Matches(g)
      THEN TIME_GROUPS[CHOOSE g \in 1..Len(TIME_GROUPS) :
                         Matches(g) /\ \A k \in 1..(g - 1) : ~Matches(k)]
      ELSE TIME_GROUPS[1]

\* const HOURS = Array.from({ length: 24 }, (_, i) => i)
HOURS == [i \in 1..HoursPerDay |-> Hours(i - 1)]

(***************************************************************************)
(* Derived reads of the two components                                     *)
(***************************************************************************)
\* A render that reads a property of an undefined list entry throws and
\* React unmounts the page: no handler runs any more.
Crashed == \E i \in 1..Len(selectedTimezones) : selectedTimezones[i] = Undefined

\* const firstTimezone = selectedTimezones[0]
firstTimezone ==
  IF Len(selectedTimezones) > 0 THEN selectedTimezones[1] ELSE Undefined

\* getHourInTimezone without the "+ 24" before the remainder.
getHourInTimezone_NoAdd24(firstTzHour, tz) ==
  IF firstTimezone = Undefined THEN firstTzHour
  ELSE LET offsetDiff == OffsetOf(tz) - OffsetOf(firstTimezone)
       IN  IF firstTzHour = NaN THEN NaN
           ELSE JsRem(firstTzHour + offsetDiff, Day)

\* getHourInTimezone with the "+ 24" but without the remainder by 24.
getHourInTimezone_NoRemainder(firstTzHour, tz) ==
  IF firstTimezone = Undefined THEN firstTzHour
  ELSE LET offsetDiff == OffsetOf(tz) - OffsetOf(firstTimezone)
       IN  IF firstTzHour = NaN THEN NaN
           ELSE firstTzHour + offsetDiff + Day

\* TimezoneComparison.tsx getHourInTimezone(firstTzHour, tz)
getHourInTimezone(firstTzHour, tz) ==
  IF firstTimezone = Undefined THEN firstTzHour
  ELSE LET offsetDiff == OffsetOf(tz) - OffsetOf(firstTimezone)
       IN  IF firstTzHour = NaN THEN NaN
           ELSE JsRem(firstTzHour + offsetDiff + Day, Day)

\* The Sidebar's getHourInTimezone without the "+ 24" before the remainder.
sidebarGetHourInTimezone_NoAdd24(tz) ==
  IF firstTimezone = Undefined THEN selectedHour
  ELSE LET offsetDiff == OffsetOf(tz) - OffsetOf(firstTimezone)
       IN  IF selectedHour = NaN THEN NaN
           ELSE JsRem(selectedHour + offsetDiff, Day)

\* The Sidebar's getHourInTimezone with the difference of the offsets taken
\* the other way round.
sidebarGetHourInTimezone_ReversedDiff(tz) ==
  IF firstTimezone = Undefined THEN selectedHour
  ELSE LET offsetDiff == OffsetOf(firstTimezone) - OffsetOf(tz)
       IN  IF selectedHour = NaN THEN NaN
           ELSE JsRem(selectedHour + offsetDiff + Day, Day)

\* Sidebar.tsx getHourInTimezone(tz), which reads selectedHour
sidebarGetHourInTimezone(tz) ==
  IF firstTimezone = Undefined THEN selectedHour
  ELSE LET offsetDiff == OffsetOf(tz) - OffsetOf(firstTimezone)
       IN  IF selectedHour = NaN THEN NaN
           ELSE JsRem(selectedHour + offsetDiff + Day, Day)

\* The dropdown offering every registry entry, selected or not.
availableTimezones_Unfiltered == RegistryIds

\* Sidebar.tsx: TIMEZONE_LIST without the entries already selected.
availableTimezones ==
  { id \in RegistryIds :
      ~(\E i \in 1..Len(selectedTimezones) : selectedTimezones[i] = id) }

\* Sidebar.tsx: one card per selected timezone.
SidebarCards ==
  [i \in 1..Len(selectedTimezones) |->
     LET hourInTz == sidebarGetHourInTimezone(selectedTimezones[i])
     IN  [id |-> selectedTimezones[i],
          isFirst |-> (i = 1),
          hourInTz |-> hourInTz,
          time |-> formatTime(hourInTz)]]

\* TimezoneComparison.tsx: one row of 24 hour blocks per selected timezone.
TimelineRows ==
  [i \in 1..Len(selectedTimezones) |->
     [k \in 1..Len(HOURS) |->
        LET tzHour == IF i = 1 THEN HOURS[k]
                      ELSE getHourInTimezone(HOURS[k], selectedTimezones[i])
        IN  [tzHour |-> tzHour,
             group |-> getTimeGroupForHour(tzHour).name,
             title |-> formatHour(tzHour)]]]

\* timelineRef.current: the first row, when there is one.
timelineMounted == Len(selectedTimezones) > 0

\* calculateHourFromPosition without Math.max(0, ...): no lower clamp.
calculateHourFromPosition_NoLowerClamp(clientX) ==
  IF ~timelineMounted THEN selectedHour
  ELSE LET x == clientX - rect.left
       IN  IF rect.width = 0
           THEN (IF x > 0 THEN Day ELSE IF x < 0 THEN 0 - Day ELSE NaN)
           ELSE IF x >= rect.width THEN Day
           ELSE (x * Day) \div rect.width

\* calculateHourFromPosition without Math.min(1, ...): no upper clamp.
calculateHourFromPosition_NoUpperClamp(clientX) ==
  IF ~timelineMounted THEN selectedHour
  ELSE LET x == clientX - rect.left
       IN  IF rect.width = 0
           THEN (IF x > 0 THEN Day * Day ELSE IF x < 0 THEN 0 ELSE NaN)
           ELSE IF x <= 0 THEN 0
           ELSE (x * Day) \div rect.width

\* TimezoneComparison.tsx calculateHourFromPosition.  With a zero width
\* x / rect.width is +Infinity, -Infinity or NaN.
calculateHourFromPosition(clientX) ==
  IF ~timelineMounted THEN selectedHour
  ELSE LET x == clientX - rect.left
       IN  IF rect.width = 0
           THEN (IF x > 0 THEN Day ELSE IF x < 0 THEN 0 ELSE NaN)
           ELSE IF x <= 0 THEN 0
           ELSE IF x >= rect.width THEN Day
           ELSE (x * Day) \div rect.width

(***************************************************************************)
(* Handlers of Home                                                        *)
(***************************************************************************)
\* Array.prototype.splice: the index a start argument denotes.
SpliceStart(start, len) ==
  IF start < 0 THEN (IF len + start < 0 THEN 0 ELSE len + start)
  ELSE IF start > len THEN len ELSE start

\* newList.splice(fromIndex, 1): the list left and the elements removed.
SpliceRemoveOne(list, fromIndex) ==
  LET len == Len(list)
      s == SpliceStart(fromIndex, len)
  IN  IF s < len
      THEN [rest |-> SubSeq(list, 1, s) \o SubSeq(list, s + 2, len),
            removed |-> <<list[s + 1]>>]
      ELSE [rest |-> list, removed |-> <<>>]

\* newList.splice(toIndex, 0, moved)
SpliceInsert(list, toIndex, moved) ==
  LET len == Len(list)
      s == SpliceStart(toIndex, len)
  IN  SubSeq(list, 1, s) \o <<moved>> \o SubSeq(list, s + 1, len)

\* setSelectedTimezones((prev) => [...prev, timezone])
handleAddTimezone(timezone) ==
  selectedTimezones' = Append(selectedTimezones, timezone)

\* A remove written as splice(indexOf(id), 1): indexOf is -1 for an absent
\* identifier, and splice(-1, 1) drops the last entry.
handleRemoveTimezone_SpliceIndexOf(id) ==
  LET found == { i \in 1..Len(selectedTimezones) : selectedTimezones[i] = id }
      indexOf == IF found = {} THEN 0 - 1
                 ELSE (CHOOSE i \in found : \A j \in found : i <= j) - 1
  IN  selectedTimezones' = SpliceRemoveOne(selectedTimezones, indexOf).rest

\* setSelectedTimezones((prev) => prev.filter((tz) => tz.id !== id))
handleRemoveTimezone(id) ==
  selectedTimezones' = SelectSeq(selectedTimezones, LAMBDA tz : tz # id)

\* A reorder that exchanges the two entries instead of moving one.
handleReorderTimezones_Swap(fromIndex, toIndex) ==
  selectedTimezones' =
    [i \in 1..Len(selectedTimezones) |->
       IF i = fromIndex + 1 /\ toIndex + 1 \in 1..Len(selectedTimezones)
       THEN selectedTimezones[toIndex + 1]
       ELSE IF i = toIndex + 1 /\ fromIndex + 1 \in 1..Len(selectedTimezones)
       THEN selectedTimezones[fromIndex + 1]
       ELSE selectedTimezones[i]]

\* const [moved] = newList.splice(fromIndex, 1); newList.splice(toIndex, 0, moved)
handleReorderTimezones(fromIndex, toIndex) ==
  LET cut == SpliceRemoveOne(selectedTimezones, fromIndex)
      moved == IF Len(cut.removed) > 0 THEN cut.removed[1] ELSE Undefined
  IN  selectedTimezones' = SpliceInsert(cut.rest, toIndex, moved)

\* setSelectedHour(hour)
handleHourChange(hour) == selectedHour' = hour

\* handleMouseMove / handleTouchMove as created by one render: useCallback
\* makes a new function whenever isDragging or selectedHour (through
\* calculateHourFromPosition) has changed, and the function sees those values.
MoveHandler(dragging, hour) == [isDragging |-> dragging, selectedHour |-> hour]

\* The effect without its cleanup: nothing is ever removed from the window.
ListenersEffect_NoCleanup ==
  /\ listenersAttached' = (listenersAttached \/ isDragging')
  /\ moveListeners' =
       moveListeners \cup
         (IF isDragging' THEN {MoveHandler(isDragging', selectedHour')} ELSE {})

\* The effect without the test of isDragging: every run attaches listeners.
ListenersEffect_AlwaysAttach ==
  /\ listenersAttached' = TRUE
  /\ moveListeners' =
       (moveListeners \ {MoveHandler(isDragging, selectedHour)}) \cup
         {MoveHandler(isDragging', selectedHour')}

\* The effect of TimezoneComparison after a commit that changed isDragging
\* or a handler: the cleanup removes the listeners the previous run added,
\* then the listeners of this render are added while isDragging.
\* listenersAttached is the mouseup / touchend listener (handleMouseUp never
\* changes), moveListeners the mousemove / touchmove listeners.
ListenersEffect ==
  /\ listenersAttached' = isDragging'
  /\ moveListeners' =
       (moveListeners \ {MoveHandler(isDragging, selectedHour)}) \cup
         (IF isDragging' THEN {MoveHandler(isDragging', selectedHour')} ELSE {})

(***************************************************************************)
(* User events                                                             *)
(***************************************************************************)
\* The pointer is over the timeline row that receives the down event.
OverTimeline(clientX) ==
  /\ timelineMounted
  /\ rect.width > 0
  /\ clientX >= rect.left
  /\ clientX < rect.left + rect.width

ToggleDropdown ==
  /\ ~Crashed
  /\ isOpen' = ~isOpen
  /\ UNCHANGED <<selectedTimezones, selectedHour, isDragging,
                 listenersAttached, moveListeners, rect, dnd>>

\* Sidebar.tsx handleSelectTimezone on an item of the open dropdown.
SelectTimezone(id) ==
  /\ ~Crashed
  /\ isOpen
  /\ id \in availableTimezones
  /\ Len(selectedTimezones) < MaxSelected
  /\ handleAddTimezone(id)
  /\ isOpen' = FALSE
  /\ UNCHANGED <<selectedHour, isDragging, listenersAttached, moveListeners,
                 rect, dnd>>

\* A remove button that keeps the instant instead of the number: when the
\* first entry goes, the hour is converted to the entry that becomes first.
RemoveTimezone_RebaseHour(id) ==
  /\ ~Crashed
  /\ \E i \in 1..Len(selectedTimezones) : selectedTimezones[i] = id
  /\ handleRemoveTimezone(id)
  /\ handleHourChange(IF selectedTimezones[1] = id /\ Len(selectedTimezones) > 1
                      THEN sidebarGetHourInTimezone(selectedTimezones[2])
                      ELSE selectedHour)
  /\ UNCHANGED <<isDragging, rect, isOpen, dnd>>
  /\ ListenersEffect

\* The remove button of a card or of a timeline row.
RemoveTimezone(id) ==
  /\ ~Crashed
  /\ \E i \in 1..Len(selectedTimezones) : selectedTimezones[i] = id
  /\ handleRemoveTimezone(id)
  /\ UNCHANGED <<selectedHour, isDragging, listenersAttached, moveListeners,
                 rect, isOpen, dnd>>

\* Sidebar.tsx hover of a dragged card (index fromIndex) over the card
\* at toIndex.
HoverCard(fromIndex, toIndex) ==
  /\ ~Crashed
  /\ fromIndex \in 0..(Len(selectedTimezones) - 1)
  /\ toIndex \in 0..(Len(selectedTimezones) - 1)
  /\ fromIndex # toIndex
  /\ handleReorderTimezones(fromIndex, toIndex)
  /\ UNCHANGED <<selectedHour, isDragging, listenersAttached, moveListeners,
                 rect, isOpen, dnd>>

\* No card of the sidebar is being dragged.
NoCardDrag ==
  /\ dragItem = <<>>
  /\ draggedId = Undefined
  /\ listAtDragStart = <<>>
  /\ onMoveCalls = <<>>

\* Sidebar.tsx useDrag of the card at index: the drag begins with the item
\* { index } of that card's last render.
BeginCardDrag(index) ==
  /\ ~Crashed
  /\ dragItem = <<>>
  /\ index \in 0..(Len(selectedTimezones) - 1)
  /\ dragItem' = <<[index |-> index]>>
  /\ draggedId' = selectedTimezones[index + 1]
  /\ listAtDragStart' = selectedTimezones
  /\ onMoveCalls' = <<>>
  /\ UNCHANGED <<selectedTimezones, selectedHour, isDragging,
                 listenersAttached, moveListeners, rect, isOpen>>

\* The hover that calls onMove but does not write item.index.
CardHover_NoIndexUpdate(index) ==
  /\ ~Crashed
  /\ dragItem # <<>>
  /\ index \in 0..(Len(selectedTimezones) - 1)
  /\ LET item == dragItem[1]
     IN  IF item.index = index
         THEN /\ onMoveCalls' = <<>>
              /\ UNCHANGED <<selectedTimezones, dragItem>>
         ELSE /\ handleReorderTimezones(item.index, index)
              /\ onMoveCalls' = << <<item.index, index>> >>
              /\ UNCHANGED dragItem
  /\ UNCHANGED <<selectedHour, isDragging, listenersAttached, moveListeners,
                 rect, isOpen, draggedId, listAtDragStart>>

\* Sidebar.tsx useDrop hover of the card rendered at index, during a card
\* drag: if (item.index === index) return; onMove(item.index, index);
\* item.index = index
CardHover(index) ==
  /\ ~Crashed
  /\ dragItem # <<>>
  /\ index \in 0..(Len(selectedTimezones) - 1)
  /\ LET item == dragItem[1]
     IN  IF item.index = index
         THEN /\ onMoveCalls' = <<>>
              /\ UNCHANGED <<selectedTimezones, dragItem>>
         ELSE /\ handleReorderTimezones(item.index, index)
              /\ onMoveCalls' = << <<item.index, index>> >>
              /\ dragItem' = <<[index |-> index]>>
  /\ UNCHANGED <<selectedHour, isDragging, listenersAttached, moveListeners,
                 rect, isOpen, draggedId, listAtDragStart>>

\* The drop or the cancel that ends the card drag.
EndCardDrag ==
  /\ dragItem # <<>>
  /\ dragItem' = <<>>
  /\ draggedId' = Undefined
  /\ listAtDragStart' = <<>>
  /\ onMoveCalls' = <<>>
  /\ UNCHANGED <<selectedTimezones, selectedHour, isDragging,
                 listenersAttached, moveListeners, rect, isOpen>>

\* handleMouseDown that starts the drag without emitting the hour.
MouseDown_NoJump(clientX) ==
  /\ ~Crashed
  /\ OverTimeline(clientX)
  /\ isDragging' = TRUE
  /\ UNCHANGED selectedHour
  /\ ListenersEffect
  /\ UNCHANGED <<selectedTimezones, rect, isOpen, dnd>>

\* handleMouseDown
MouseDown(clientX) ==
  /\ ~Crashed
  /\ OverTimeline(clientX)
  /\ isDragging' = TRUE
  /\ handleHourChange(calculateHourFromPosition(clientX))
  /\ ListenersEffect
  /\ UNCHANGED <<selectedTimezones, rect, isOpen, dnd>>

\* handleTouchStart
TouchStart(clientX) ==
  /\ ~Crashed
  /\ OverTimeline(clientX)
  /\ isDragging' = TRUE
  /\ handleHourChange(calculateHourFromPosition(clientX))
  /\ ListenersEffect
  /\ UNCHANGED <<selectedTimezones, rect, isOpen, dnd>>

\* handleMouseMove that eases the hour towards the pointer.
MouseMove_Smoothed(clientX) ==
  /\ ~Crashed
  /\ UNCHANGED <<selectedTimezones, isDragging, rect, isOpen, dnd>>
  /\ \E handler \in moveListeners :
       IF ~handler.isDragging
       THEN UNCHANGED <<selectedHour, listenersAttached, moveListeners>>
       ELSE /\ handleHourChange(
                 IF selectedHour = NaN \/ calculateHourFromPosition(clientX) = NaN
                 THEN NaN
                 ELSE (selectedHour + calculateHourFromPosition(clientX)) \div 2)
            /\ ListenersEffect

\* handleMouseMove, a window listener: the window calls a function that is
\* attached, and that function tests the isDragging of its own render.
MouseMove(clientX) ==
  /\ ~Crashed
  /\ UNCHANGED <<selectedTimezones, isDragging, rect, isOpen, dnd>>
  /\ \E handler \in moveListeners :
       IF ~handler.isDragging
       THEN UNCHANGED <<selectedHour, listenersAttached, moveListeners>>
       ELSE /\ handleHourChange(calculateHourFromPosition(clientX))
            /\ ListenersEffect

\* handleTouchMove, a window listener: the window calls a function that is
\* attached, and that function tests the isDragging of its own render.
TouchMove(clientX) ==
  /\ ~Crashed
  /\ UNCHANGED <<selectedTimezones, isDragging, rect, isOpen, dnd>>
  /\ \E handler \in moveListeners :
       IF ~handler.isDragging
       THEN UNCHANGED <<selectedHour, listenersAttached, moveListeners>>
       ELSE /\ handleHourChange(calculateHourFromPosition(clientX))
            /\ ListenersEffect

\* handleMouseUp as the window's mouseup listener
MouseUp ==
  /\ ~Crashed
  /\ listenersAttached
  /\ isDragging' = FALSE
  /\ UNCHANGED <<selectedTimezones, selectedHour, rect, isOpen, dnd>>
  /\ ListenersEffect

\* handleMouseUp as the window's touchend listener
TouchEnd ==
  /\ ~Crashed
  /\ listenersAttached
  /\ isDragging' = FALSE
  /\ UNCHANGED <<selectedTimezones, selectedHour, rect, isOpen, dnd>>
  /\ ListenersEffect

\* The browser lays the timeline out anew (resize, zoom).
Layout(r) ==
  /\ r # rect
  /\ rect' = r
  /\ UNCHANGED <<selectedTimezones, selectedHour, isDragging,
                 listenersAttached, moveListeners, isOpen, dnd>>

TimelineNext ==
  \/ \E x \in ClientXs : MouseDown(x)
  \/ \E x \in ClientXs : TouchStart(x)
  \/ \E x \in ClientXs : MouseMove(x)
  \/ \E x \in ClientXs : TouchMove(x)
  \/ MouseUp
  \/ TouchEnd
  \/ \E r \in Rects : Layout(r)

(***************************************************************************)
(* The page as the user drives it, from the default selection              *)
(***************************************************************************)
Init ==
  /\ selectedTimezones = DEFAULT_TIMEZONES
  /\ selectedHour \in getInitialHour
  /\ isDragging = FALSE
  /\ listenersAttached = FALSE
  /\ moveListeners = {}
  /\ rect = [left |-> 100, width |-> 240]
  /\ isOpen = FALSE
  /\ NoCardDrag

Next ==
  \/ ToggleDropdown
  \/ \E id \in Picks : SelectTimezone(id)
  \/ \E id \in Picks : RemoveTimezone(id)
  \/ \E f \in 0..(MaxSelected - 1), t \in 0..(MaxSelected - 1) : HoverCard(f, t)
  \/ \E x \in ClientXs : MouseDown(x)
  \/ \E x \in ClientXs : TouchStart(x)
  \/ \E x \in ClientXs : MouseMove(x)
  \/ \E x \in ClientXs : TouchMove(x)
  \/ MouseUp
  \/ TouchEnd
  \/ \E r \in Rects : Layout(r)

Spec == Init /\ [][Next]_vars

(***************************************************************************)
(* The timeline over every selection of one or two registry entries        *)
(***************************************************************************)
InitPairs ==
  /\ selectedTimezones \in
       { <<a>> : a \in RegistryIds } \cup
       { p \in RegistryIds \X RegistryIds : p[1] # p[2] }
  /\ selectedHour \in getInitialHour
  /\ isDragging = FALSE
  /\ listenersAttached = FALSE
  /\ moveListeners = {}
  /\ rect = [left |-> 100, width |-> 240]
  /\ isOpen = FALSE
  /\ NoCardDrag

SpecPairs == InitPairs /\ [][TimelineNext]_vars

(***************************************************************************)
(* Card drags in the sidebar                                               *)
(***************************************************************************)
\* Between two card drags the user edits the selection; during a native
\* (HTML5 backend) drag the browser delivers drag events only.
DragNext ==
  \/ dragItem = <<>> /\ ToggleDropdown
  \/ dragItem = <<>> /\ \E id \in Picks : SelectTimezone(id)
  \/ dragItem = <<>> /\ \E id \in Picks : RemoveTimezone(id)
  \/ \E index \in 0..(MaxSelected - 1) : BeginCardDrag(index)
  \/ \E index \in 0..(MaxSelected - 1) : CardHover(index)
  \/ EndCardDrag

SpecDrag == Init /\ [][DragNext]_vars

(***************************************************************************)
(* The handlers of Home called directly, with any argument                 *)
(***************************************************************************)
CallAdd(id) ==
  /\ ~Crashed
  /\ Len(selectedTimezones) < MaxSelected
  /\ handleAddTimezone(id)
  /\ UNCHANGED <<selectedHour, isDragging, listenersAttached, moveListeners,
                 rect, isOpen, dnd>>

CallRemove(id) ==
  /\ ~Crashed
  /\ handleRemoveTimezone(id)
  /\ UNCHANGED <<selectedHour, isDragging, listenersAttached, moveListeners,
                 rect, isOpen, dnd>>

CallReorder(fromIndex, toIndex) ==
  /\ ~Crashed
  /\ handleReorderTimezones(fromIndex, toIndex)
  /\ UNCHANGED <<selectedHour, isDragging, listenersAttached, moveListeners,
                 rect, isOpen, dnd>>

IndexArgs == (0 - IndexSlack)..(MaxSelected + IndexSlack)

CallNext ==
  \/ \E id \in Picks : CallAdd(id)
  \/ \E id \in Picks : CallRemove(id)
  \/ \E f \in IndexArgs, t \in IndexArgs : CallReorder(f, t)

SpecCalls == Init /\ [][CallNext]_vars

(***************************************************************************)
(* Properties                                                              *)
(***************************************************************************)
IsHourOfDay(h) == h # NaN /\ h >= 0 /\ h < Day

Entries == 1..Len(selectedTimezones)

OffsetDiff(i) == OffsetOf(selectedTimezones[i]) - OffsetOf(selectedTimezones[1])

\* ((h + d) mod 24 + 24) mod 24, with the remainder of JavaScript.
NormalizedHour(h, d) == JsRem(JsRem(h + d, Day) + Day, Day)

\* C1: for every reference hour in [0, 24) and every pair of offsets the
\* derived hour of each of the three getHourInTimezone functions is
\* ((h + (targetOffset - referenceOffset)) mod 24 + 24) mod 24, also when
\* the sum is negative and when an offset is fractional.
C1_DerivedHourIsNormalizedSum ==
  IsHourOfDay(selectedHour) =>
    \A i \in Entries :
      /\ sidebarGetHourInTimezone(selectedTimezones[i])
           = NormalizedHour(selectedHour, OffsetDiff(i))
      /\ getHourInTimezone(selectedHour, selectedTimezones[i])
           = NormalizedHour(selectedHour, OffsetDiff(i))
      /\ libGetHourInTimezone(selectedHour, OffsetOf(selectedTimezones[i]))
           = NormalizedHour(selectedHour, OffsetOf(selectedTimezones[i]))

C1_Witness ==
  /\ isDragging
  /\ IsHourOfDay(selectedHour)
  /\ \E i \in Entries :
       /\ selectedHour + OffsetDiff(i) < 0
       /\ OffsetDiff(i) % UnitsPerHour # 0
       /\ sidebarGetHourInTimezone(selectedTimezones[i])
            = selectedHour + OffsetDiff(i) + Day

\* C2: for every numeric reference hour and every pair of offsets, as far
\* apart as +13 and -8, every derived hour shown (card and hour block)
\* lies in [0, 24).
C2_DerivedHourInRange ==
  selectedHour # NaN =>
    \A i \in Entries :
      /\ IsHourOfDay(sidebarGetHourInTimezone(selectedTimezones[i]))
      /\ \A k \in 1..Len(HOURS) :
           IsHourOfDay(getHourInTimezone(HOURS[k], selectedTimezones[i]))

C2_Witness ==
  /\ isDragging
  /\ selectedHour # NaN
  /\ Len(selectedTimezones) = 2
  /\ OffsetOf(selectedTimezones[1]) = Hours(13)
  /\ OffsetOf(selectedTimezones[2]) = Hours(0 - 8)
  /\ selectedHour + OffsetDiff(2) < 0
  /\ IsHourOfDay(sidebarGetHourInTimezone(selectedTimezones[2]))

\* C3 as stated: in every reachable state the stored reference hour is a
\* number in the half-open interval [0, 24).
C3_HourInHalfOpenDay == IsHourOfDay(selectedHour)

\* C3 amended: the stored reference hour is a number in the closed interval
\* [0, 24]; it becomes NaN only by a move handled while the timeline has
\* zero width, and then stays NaN until the next event that maps a hour.
C3_HourInClosedDay ==
  /\ selectedHour \in 0..Day
  /\ [][ \/ selectedHour' \in 0..Day
         \/ /\ selectedHour' = NaN
            /\ \/ selectedHour = NaN
               \/ (rect.width = 0 /\ isDragging) ]_vars

C3_Witness == selectedHour = Day /\ ~isDragging

\* C4: when the coordinate-to-hour mapping runs while the timeline element
\* has zero width, the reference hour is left as it was (no NaN, no value
\* of a division by zero), for every pointer coordinate.
C4_ZeroWidthKeepsHour ==
  [][ (timelineMounted /\ rect.width = 0) => selectedHour' = selectedHour ]_vars

SameEntries(a, b) ==
  /\ Len(a) = Len(b)
  /\ \A e \in { a[i] : i \in 1..Len(a) } \cup { b[i] : i \in 1..Len(b) } :
       Cardinality({ i \in 1..Len(a) : a[i] = e })
         = Cardinality({ i \in 1..Len(b) : b[i] = e })

IndexOutOfRange(index) == index < 0 \/ index >= Len(selectedTimezones)

\* C5: a reorder with an out-of-range index never corrupts the selection:
\* the list keeps its length and its entries, none lost, duplicated or
\* replaced by an undefined placeholder.
C5_ReorderOutOfRangeKeepsEntries ==
  [][ \A f \in IndexArgs, t \in IndexArgs :
        ( /\ IndexOutOfRange(f) \/ IndexOutOfRange(t)
          /\ handleReorderTimezones(f, t) )
        => /\ SameEntries(selectedTimezones, selectedTimezones')
           /\ \A i \in 1..Len(selectedTimezones') :
                selectedTimezones'[i] # Undefined ]_vars

NoDuplicateIds(list) ==
  \A i \in 1..Len(list), j \in 1..Len(list) : list[i] = list[j] => i = j

\* C6: an add of a descriptor whose identifier is already selected is a
\* no-op: the list is the same afterwards and holds no duplicate.
C6_AddPresentIsNoOp ==
  [][ \A id \in Picks :
        ( /\ \E i \in Entries : selectedTimezones[i] = id
          /\ handleAddTimezone(id) )
        => /\ selectedTimezones' = selectedTimezones
           /\ NoDuplicateIds(selectedTimezones') ]_vars

\* C7: in every state reached from the default selection by dropdown
\* adds, removes and reorders, no two entries of the selection have the
\* same identifier.
C7_NoDuplicateIds == NoDuplicateIds(selectedTimezones)

C7_Witness == selectedTimezones = <<"ist", "pst", "vn">>

\* The two characters formatTime puts between ":" and " AM" / " PM".
MinutesText(time) == SubSeq(time, Len(time) - 4, Len(time) - 3)

\* C8: no card ever shows 60 minutes: a fraction that rounds to 60 minutes
\* is shown as 00 of the next hour.
C8_NeverSixtyMinutes ==
  \A i \in Entries : MinutesText(SidebarCards[i].time) # "60"

DigitValue(c) == CHOOSE d \in 0..9 : Digit(d) = c

IsDigit(c) == \E d \in 0..9 : Digit(d) = c

\* C9: for every hour in [0, 24) a card shows "H:MM AM/PM": H is 12 for
\* floor 0, floor - 12 for floor > 12, else floor; MM is the fraction times
\* 60 rounded, as two digits; AM for floor < 12, else PM.  In particular
\* hour 0 shows "12:00 AM" and 13.5 shows "1:30 PM".
C9_TimeText ==
  \A i \in Entries :
    LET hour == SidebarCards[i].hourInTz
        text == SidebarCards[i].time
        n == CHOOSE w \in 0..(HoursPerDay - 1) :
               Hours(w) <= hour /\ hour < Hours(w + 1)
        frac == hour - Hours(n)
        mm == CHOOSE m \in 0..60 :
                /\ (2 * m - 1) * UnitsPerHour <= 2 * 60 * frac
                /\ 2 * 60 * frac < (2 * m + 1) * UnitsPerHour
        H == IF n = 0 THEN 12 ELSE IF n > 12 THEN n - 12 ELSE n
        colon == IF H >= 10 THEN 3 ELSE 2
        Ch(p) == SubSeq(text, p, p)
    IN  IsHourOfDay(hour) =>
          /\ Len(text) = colon + 5
          /\ \A p \in (1..(colon - 1)) \cup {colon + 1, colon + 2} : IsDigit(Ch(p))
          /\ IF H >= 10
             THEN 10 * DigitValue(Ch(1)) + DigitValue(Ch(2)) = H
             ELSE DigitValue(Ch(1)) = H
          /\ Ch(colon) = ":"
          /\ 10 * DigitValue(Ch(colon + 1)) + DigitValue(Ch(colon + 2)) = mm
          /\ SubSeq(text, colon + 3, colon + 5)
               = (IF n < 12 THEN " AM" ELSE " PM")
          /\ (hour = Hours(0) => text = "12:00 AM")
          /\ (hour = Hours(13) + HalfHours(1) => text = "1:30 PM")

C9_Witness ==
  isDragging /\ \E i \in Entries :
    /\ SidebarCards[i].hourInTz = Hours(13) + HalfHours(1)
    /\ SidebarCards[i].time = "1:30 PM"

\* C10: every hour block's hour in [0, 24) gets exactly one of the bands
\* [0,6), [6,12), [12,18), [18,24); 6, 12 and 18 get the later band.
C10_OneBandPerHour ==
  \A i \in Entries : \A k \in 1..Len(HOURS) :
    LET hour == TimelineRows[i][k].tzHour
        group == TimelineRows[i][k].group
        InBand(b) == Hours(6 * (b - 1)) <= hour /\ hour < Hours(6 * b)
    IN  IsHourOfDay(hour) =>
          /\ \E b \in 1..4 :
               /\ InBand(b)
               /\ \A c \in 1..4 : InBand(c) => c = b
               /\ group = TIME_GROUPS[b].name
          /\ (hour = Hours(6) => group = "Morning")
          /\ (hour = Hours(12) => group = "Afternoon")
          /\ (hour = Hours(18) => group = "Night")

C10_Witness ==
  \E i \in Entries : \E k \in 1..Len(HOURS) :
    /\ i > 1
    /\ selectedTimezones[i] = "pst"
    /\ selectedTimezones[1] = "ist"
    /\ TimelineRows[i][k].tzHour = Hours(11) + HalfHours(1)
    /\ TimelineRows[i][k].group = "Morning"
    /\ \E j \in 1..Len(HOURS) :
         /\ TimelineRows[1][j].tzHour = Hours(12)
         /\ TimelineRows[1][j].group = "Afternoon"

Clamp(v, lo, hi) == IF v < lo THEN lo ELSE IF v > hi THEN hi ELSE v

\* h = clamp((x - left) / width, 0, 1) * 24, for a positive width.
IsClampedHour(h, x) ==
  /\ h # NaN
  /\ h * rect.width = Day * Clamp(x - rect.left, 0, rect.width)

\* C11: with a positive width the hour computed for a coordinate x is
\* clamp((x - left) / width, 0, 1) * 24, within [0, 24] for every x, also
\* left and right of the element; with left = 100 and width = 240,
\* x = 100 gives 0, x = 220 gives 12 and x = 340 gives 24.
C11_ClampedMapping ==
  (timelineMounted /\ rect.width > 0) =>
    /\ \A x \in ClientXs :
         /\ IsClampedHour(calculateHourFromPosition(x), x)
         /\ calculateHourFromPosition(x) >= 0
         /\ calculateHourFromPosition(x) <= Hours(24)
    /\ rect = [left |-> 100, width |-> 240] =>
         /\ calculateHourFromPosition(100) = Hours(0)
         /\ calculateHourFromPosition(220) = Hours(12)
         /\ calculateHourFromPosition(340) = Hours(24)

C11_Witness ==
  /\ isDragging
  /\ timelineMounted
  /\ rect = [left |-> 100, width |-> 240]
  /\ selectedHour = Hours(12)
  /\ calculateHourFromPosition(1200) = Hours(24)
  /\ calculateHourFromPosition(80) = Hours(0)

\* C12: from Idle, in any reachable state, a pointer-down or touch-start on
\* the timeline moves to Dragging and in the same step sets the reference
\* hour to the hour mapped from that event's coordinate, whatever an
\* earlier drag session left behind.
C12_DownStartsDragAndJumps ==
  [][ \A x \in ClientXs :
        (~isDragging /\ (MouseDown(x) \/ TouchStart(x)))
        => /\ isDragging'
           /\ listenersAttached'
           /\ IsClampedHour(selectedHour', x) ]_vars

C12_Witness ==
  /\ isDragging
  /\ rect.width = 1040
  /\ selectedHour = Hours(12)
  /\ Len(selectedTimezones) = 1

\* C13: a pointer-up or touch-end while Dragging returns the controller to
\* Idle and keeps the reference hour; while the controller stays Idle no
\* step (no move event in particular) changes the reference hour.
C13_ReleaseEndsDrag ==
  [][ /\ (isDragging /\ (MouseUp \/ TouchEnd))
         => (~isDragging' /\ selectedHour' = selectedHour)
      /\ (~isDragging /\ ~isDragging') => selectedHour' = selectedHour
      /\ \A x \in ClientXs :
           (~isDragging /\ (MouseMove(x) \/ TouchMove(x)))
           => selectedHour' = selectedHour ]_vars

C13_Witness ==
  /\ ~isDragging
  /\ moveListeners = {}
  /\ rect.width = 1040
  /\ selectedHour = Hours(24)

\* The value of clamp(x / 0, 0, 1) * 24: x / 0 is +Infinity, -Infinity or NaN.
DegenerateHour(x) ==
  IF x > rect.left THEN Hours(24) ELSE IF x < rect.left THEN Hours(0) ELSE NaN

\* h is the hour of coordinate x on the timeline as it is laid out now.
IsHourOfCoordinate(h, x) ==
  IF rect.width > 0 THEN IsClampedHour(h, x) ELSE h = DegenerateHour(x)

\* C14 as stated: while Dragging, every pointer-move or touch-move sets the
\* reference hour to the hour mapped from that event's own coordinate,
\* independent of the previous reference hour: the hour a move at x stores
\* is the hour of x.
C14_MoveSetsCoordinateHour ==
  isDragging =>
    \A x \in ClientXs : IsHourOfCoordinate(calculateHourFromPosition(x), x)

\* C14 amended: while Dragging, a move handled while a timeline row is
\* mounted sets the reference hour to the hour of that event's own
\* coordinate, whatever the hour was; with an empty selection (no row) it
\* leaves the hour as it is.
C14_MoveSetsCoordinateHourWhenMounted ==
  /\ [](isDragging =>
          \A x \in ClientXs :
            IF timelineMounted
            THEN IsHourOfCoordinate(calculateHourFromPosition(x), x)
            ELSE calculateHourFromPosition(x) = selectedHour)
  /\ [][ \A x \in ClientXs :
           (isDragging /\ (MouseMove(x) \/ TouchMove(x)))
           => IF timelineMounted
              THEN IsHourOfCoordinate(selectedHour', x)
              ELSE selectedHour' = selectedHour ]_vars

C14_Witness ==
  /\ isDragging
  /\ timelineMounted
  /\ rect.width = 240
  /\ selectedHour = Hours(24)
  /\ moveListeners = {MoveHandler(TRUE, Hours(24))}

\* C15: the window-level move and release listeners are attached exactly
\* while the controller is Dragging: in Dragging there is one set (the
\* release listener and the single move handler of the current render), in
\* Idle there is none, so after a release nothing stays attached and a
\* later drag never stacks a second set.
C15_ListenersIffDragging ==
  /\ listenersAttached = isDragging
  /\ moveListeners =
       IF isDragging THEN {MoveHandler(isDragging, selectedHour)} ELSE {}
  /\ Cardinality(moveListeners) <= 1

\* A drag over the narrow timeline with a full selection.
C15_Witness ==
  /\ isDragging
  /\ listenersAttached
  /\ Cardinality(moveListeners) = 1
  /\ rect.width = 240
  /\ selectedHour = Hours(12)
  /\ Len(selectedTimezones) = MaxSelected

\* The list without its element at (1-based) position i.
RemoveAt(list, i) ==
  [j \in 1..(Len(list) - 1) |-> IF j < i THEN list[j] ELSE list[j + 1]]

ValidIndexes == 0..(Len(selectedTimezones) - 1)

\* What a reorder with valid indexes has to leave behind.
ReorderedAsSpecified(fromIndex, toIndex) ==
  /\ SameEntries(selectedTimezones, selectedTimezones')
  /\ selectedTimezones'[toIndex + 1] = selectedTimezones[fromIndex + 1]
  /\ RemoveAt(selectedTimezones', toIndex + 1)
       = RemoveAt(selectedTimezones, fromIndex + 1)
  /\ fromIndex = toIndex => selectedTimezones' = selectedTimezones
  /\ (Len(selectedTimezones) = 3 /\ fromIndex = 0 /\ toIndex = 2)
       => selectedTimezones' = << selectedTimezones[2], selectedTimezones[3],
                                  selectedTimezones[1] >>
  /\ (Len(selectedTimezones) = 3 /\ fromIndex = 2 /\ toIndex = 0)
       => selectedTimezones' = << selectedTimezones[3], selectedTimezones[1],
                                  selectedTimezones[2] >>

\* C16: for valid indexes reorder(fromIndex, toIndex) yields a permutation
\* of the list in which the moved entry sits at toIndex and the other
\* entries keep their relative order; reorder(i, i) changes nothing;
\* [A, B, C] becomes [B, C, A] by reorder(0, 2) and [C, A, B] by
\* reorder(2, 0).
C16_ReorderIsMove ==
  \A f \in ValidIndexes, t \in ValidIndexes :
    /\ ENABLED (handleReorderTimezones(f, t) /\ ReorderedAsSpecified(f, t))
    /\ ~ ENABLED (handleReorderTimezones(f, t) /\ ~ReorderedAsSpecified(f, t))

\* [vn, jst, ist] after reorder(0, 2).
C16_Witness == selectedTimezones = <<"jst", "ist", "vn">>

\* The positions of the entries remove(id) has to keep.
KeptBy(id) == { i \in Entries : selectedTimezones[i] # id }

\* What remove(id) has to leave behind: the list as it was when id is
\* absent; otherwise no entry with that identifier, and every other entry,
\* in the old order; one entry less when the identifier was there once.
RemovedAsSpecified(id) ==
  /\ KeptBy(id) = Entries => selectedTimezones' = selectedTimezones
  /\ Len(selectedTimezones') = Cardinality(KeptBy(id))
  /\ \A i \in KeptBy(id) :
       selectedTimezones'[Cardinality({ j \in KeptBy(id) : j <= i })]
         = selectedTimezones[i]
  /\ \A p \in Entries :
       (selectedTimezones[p] = id /\ NoDuplicateIds(selectedTimezones))
       => selectedTimezones' = RemoveAt(selectedTimezones, p)

\* C17: remove(id) with an identifier that is not selected leaves the list
\* unchanged; with a selected identifier it removes exactly the entry with
\* that identifier and keeps every other entry in its relative order.
C17_RemoveIsFilter ==
  \A id \in RegistryIds :
    /\ ENABLED (handleRemoveTimezone(id) /\ RemovedAsSpecified(id))
    /\ ~ ENABLED (handleRemoveTimezone(id) /\ ~RemovedAsSpecified(id))

\* [vn, jst, ist] after remove("jst").
C17_Witness == selectedTimezones = <<"vn", "ist">>

\* The hour h of a place with offset from, read in a place with offset to:
\* the hour of the day that differs from h + (to - from) by whole days.
ConvertedHour(h, from, to) == (h + (to - from)) % Day

\* The column of the timeline under the reference hour.
ReferenceColumn == MathFloor(selectedHour) + 1

\* C18: for every non-empty selection and every entry e the hour displayed
\* for e (on its card, and in its timeline row under each hour of the first
\* entry) is the conversion of the reference hour from the first entry's
\* offset to e's offset; with the first entry at +7, e at +9 and reference
\* hour 12, e shows 14, an Afternoon hour; with reference hour 23 and an
\* offset difference of -15, e shows 8, a Morning hour.
C18_DisplayedHourIsConversion ==
  (timelineMounted /\ selectedHour # NaN) =>
    \A i \in Entries :
      LET first == OffsetOf(selectedTimezones[1])
          own == OffsetOf(selectedTimezones[i])
          card == SidebarCards[i]
          row == TimelineRows[i]
      IN  /\ card.hourInTz = ConvertedHour(selectedHour, first, own)
          /\ \A k \in 1..Len(HOURS) :
               row[k].tzHour = ConvertedHour(HOURS[k], first, own)
          /\ (first = Hours(7) /\ own = Hours(9) /\ selectedHour = Hours(12))
               => /\ card.hourInTz = Hours(14)
                  /\ card.time = "2:00 PM"
                  /\ row[ReferenceColumn].tzHour = Hours(14)
                  /\ row[ReferenceColumn].group = "Afternoon"
          /\ (own - first = Hours(0 - 15) /\ selectedHour = Hours(23))
               => /\ card.hourInTz = Hours(8)
                  /\ card.time = "8:00 AM"
                  /\ row[ReferenceColumn].tzHour = Hours(8)
                  /\ row[ReferenceColumn].group = "Morning"

\* Reference hour 23 in Vietnam (+7) with Los Angeles (-8) added.
C18_Witness ==
  /\ selectedHour = Hours(23)
  /\ timelineMounted
  /\ OffsetOf(selectedTimezones[1]) = Hours(7)
  /\ \E i \in Entries :
       /\ OffsetDiff(i) = Hours(0 - 15)
       /\ SidebarCards[i].hourInTz = Hours(8)
       /\ TimelineRows[i][ReferenceColumn].group = "Morning"

\* The entries whose offset is the offset of the first entry (the first
\* entry itself, and e.g. Bangkok next to Vietnam).
SameOffsetAsFirst ==
  { i \in Entries :
      OffsetOf(selectedTimezones[i]) = OffsetOf(selectedTimezones[1]) }

\* C19: for every hour h in [0, 24) and every offset, the conversion of h
\* between equal reference and target offsets is h itself; so the first
\* (reference) entry, and every entry of the same offset, displays the
\* reference hour, and its timeline row repeats the hours of the day.
C19_EqualOffsetsIsIdentity ==
  IsHourOfDay(selectedHour) =>
    /\ libGetHourInTimezone(selectedHour, Hours(0)) = selectedHour
    /\ timelineMounted =>
         /\ SidebarCards[1].hourInTz = selectedHour
         /\ SidebarCards[1].time = formatTime(selectedHour)
    /\ \A i \in SameOffsetAsFirst :
         /\ sidebarGetHourInTimezone(selectedTimezones[i]) = selectedHour
         /\ getHourInTimezone(selectedHour, selectedTimezones[i]) = selectedHour
         /\ SidebarCards[i].hourInTz = selectedHour
         /\ \A k \in 1..Len(HOURS) :
              /\ getHourInTimezone(HOURS[k], selectedTimezones[i]) = HOURS[k]
              /\ TimelineRows[i][k].tzHour = HOURS[k]

\* Two cities of one offset during a drag that stopped between two hours.
C19_Witness ==
  /\ isDragging
  /\ Len(selectedTimezones) = 2
  /\ SameOffsetAsFirst = {1, 2}
  /\ OffsetOf(selectedTimezones[1]) = Hours(8)
  /\ IsHourOfDay(selectedHour)
  /\ selectedHour % UnitsPerHour # 0
  /\ selectedHour > Hours(5)
  /\ SidebarCards[2].hourInTz = selectedHour

\* A step of the timeline's pointer and touch handlers.
PointerEvent ==
  \/ \E x \in ClientXs :
       MouseDown(x) \/ TouchStart(x) \/ MouseMove(x) \/ TouchMove(x)
  \/ MouseUp
  \/ TouchEnd

\* A step of add, remove or reorder.
SelectionEdit ==
  \/ \E id \in Picks : SelectTimezone(id) \/ RemoveTimezone(id)
  \/ \E f \in ValidIndexes, t \in ValidIndexes : HoverCard(f, t)

\* C20: the reference hour is changed only by the timeline's pointer and
\* touch events. Add, remove and reorder leave the stored hour as it is,
\* also when they change which entry is first: the new first entry is the
\* reference, at the same numeric hour. Pointer-down, move and release
\* leave the selection and its order as they are. (A step that changes
\* the selection keeps the hour and is no pointer step; a step that
\* changes the hour keeps the selection, is no add, remove or reorder, and
\* stores the hour of a pointer coordinate during a drag.)
C20_HourAndSelectionFrames ==
  [][ /\ selectedTimezones' # selectedTimezones
         => /\ selectedHour' = selectedHour
            /\ ~PointerEvent
            /\ (Len(selectedTimezones') > 0 /\ IsHourOfDay(selectedHour))
               => /\ firstTimezone' = selectedTimezones'[1]
                  /\ sidebarGetHourInTimezone(selectedTimezones[1])'
                       = selectedHour
      /\ selectedHour' # selectedHour
         => /\ selectedTimezones' = selectedTimezones
            /\ ~SelectionEdit
            /\ isDragging'
            /\ \E x \in ClientXs : selectedHour' = calculateHourFromPosition(x)
    ]_vars

\* Japan alone, as the reference, at an hour the pointer chose before
\* Vietnam was removed.
C20_Witness ==
  /\ selectedTimezones = <<"jst">>
  /\ selectedHour = Hours(1) - 1
  /\ SidebarCards[1].hourInTz = selectedHour
  /\ ~isDragging

\* The position (as an index from 0) the dragged timezone has in the list.
PositionsOfDragged ==
  { i \in ValidIndexes : selectedTimezones[i + 1] = draggedId }

\* What one hover of the card at hoverIndex has to do.
HoveredAsSpecified(hoverIndex) ==
  IF dragItem[1].index # hoverIndex
  THEN /\ onMoveCalls' = << <<dragItem[1].index, hoverIndex>> >>
       /\ dragItem'[1].index = hoverIndex
       /\ selectedTimezones'[hoverIndex + 1] = draggedId
       /\ selectedTimezones' # selectedTimezones
  ELSE /\ onMoveCalls' = <<>>
       /\ dragItem' = dragItem
       /\ selectedTimezones' = selectedTimezones

\* C21: during one card drag, after every hover the index tracked for the
\* dragged item (item.index) is the position of the dragged timezone in
\* the selection, and the list is a permutation of the list at the start
\* of the drag; a hover over a card at another index issues exactly one
\* reorder(item.index, hoverIndex) and then sets item.index to hoverIndex,
\* a hover over the card at item.index issues no reorder.
C21_ItemIndexTracksDraggedCard ==
  /\ [](dragItem # <<>> =>
          /\ Len(dragItem) = 1
          /\ PositionsOfDragged = {dragItem[1].index}
          /\ SameEntries(selectedTimezones, listAtDragStart)
          /\ Len(onMoveCalls) <= 1
          /\ \A hoverIndex \in ValidIndexes :
               /\ ENABLED (CardHover(hoverIndex)
                             /\ HoveredAsSpecified(hoverIndex))
               /\ ~ ENABLED (CardHover(hoverIndex)
                               /\ ~HoveredAsSpecified(hoverIndex)))
  /\ [][ \A hoverIndex \in 0..(MaxSelected - 1) :
           CardHover(hoverIndex) => HoveredAsSpecified(hoverIndex) ]_vars

\* Vietnam dragged from the top of [vn, jst, ist] to the bottom: the last
\* hover moved it from index 1 to index 2.
C21_Witness ==
  /\ dragItem = <<[index |-> 2]>>
  /\ draggedId = "vn"
  /\ listAtDragStart = <<"vn", "jst", "ist">>
  /\ selectedTimezones = <<"jst", "ist", "vn">>
  /\ onMoveCalls = << <<1, 2>> >>

====
